---- MODULE Spec2Model ----
(***************************************************************************)
(* Model of the Airtable <-> Bill.com glue layer:                          *)
(*   - bill-reporting sync (reconciliation of the "Bill Reporting" table), *)
(*   - bill creation from "Check Requests" rows,                           *)
(*   - the record-store facade (Base.select / update / create / find).     *)
(*                                                                         *)
(* Text is modelled as a sequence of one-character strings, so that        *)
(* substring, encodeURIComponent and the merchant regular expression are   *)
(* computed character by character.  Every field value is such a sequence; *)
(* the JavaScript values undefined, null, true and false are one-token     *)
(* sequences that no text can equal.                                       *)
(***************************************************************************)
EXTENDS Integers, Sequences, FiniteSets, TLC

VARIABLES
  \* --- description round trip (create_bill packs, sync extracts) ---
  rtItem,      \* the "Check Request Line Items" row being packed
  rtSent,      \* description sent to Bill.com by create_bill
  rtStored,    \* description of the line item as stored in the ledger
  rtBill,      \* the ledger Bill holding the line item
  rtStaged,    \* mirror fields staged by the sync for the line item
  rtPc,
  \* --- invoice id of one Check Request ---
  ivRequest,   \* the "Check Requests" row
  ivBill,      \* the fields of the Bill sent to billComApi.create
  ivReturn,    \* the confirmation fields returned for the row
  ivPc,
  \* --- bill creation (create_bill main over the 'New' view) ---
  checkRequests,     \* "Check Requests" table: row id -> fields
  newVendors,        \* Bill.com ID field of the "New Vendors" row linked
                     \* from each request row
  ledgerBills,       \* Bills created in Bill.com
  ledgerVendors,     \* ids of the Vendors created in Bill.com
  approvers,         \* ids of the Bills whose approvers were set
  attachments,       \* <<bill id, filename>> uploaded
  pc,                \* per row: the call the row function is awaiting
  vendorId,          \* per row: local vendorId
  billComLineItems,  \* per row: local billComLineItems
  newBillId,         \* per row: local newBillId
  docIndex,          \* per row: position of the for-of loop over docs
  response,          \* per row: status of the last fetch response
  rowError,          \* per row: the error its row function threw
  failOrder,         \* rows whose function threw, in order
  mainPc,            \* where main is
  mainError,         \* the error main rejected with
  runs,              \* invocations of main so far
  failures,          \* calls that failed so far
  \* --- bill-reporting sync (reconciliation) ---
  bills,             \* the ledger: billComApi.listActive('Bill')
  table,             \* the "Bill Reporting" table: rows in table order
  sessionId,         \* billComApi.getSessionId() of the run
  changes,           \* the Changes Map, in insertion order
  updates,           \* the staged updates not yet sent
  creates,           \* the staged creates not yet sent
  syncPc,            \* where the sync's main is
  syncRuns,          \* runs of the sync so far
  tableBefore,       \* the table when the current run started
  prevTable,         \* the table when the previous run completed
  prevSessionId,     \* the session id of the previous run
  unchangedSince     \* the previous run completed and the ledger has not
                     \* changed since

rtVars == <<rtItem, rtSent, rtStored, rtBill, rtStaged, rtPc>>
ivVars == <<ivRequest, ivBill, ivReturn, ivPc>>
cbVars == <<checkRequests, newVendors, ledgerBills, ledgerVendors, approvers,
            attachments, pc, vendorId, billComLineItems, newBillId, docIndex,
            response, rowError, failOrder, mainPc, mainError, runs,
            failures>>
syVars == <<bills, table, sessionId, changes, updates, creates, syncPc,
            syncRuns, tableBefore, prevTable, prevSessionId, unchangedSince>>
vars   == <<rtVars, ivVars, cbVars, syVars>>

---------------------------------------------------------------------------
(* JavaScript values *)

Undefined == <<"<undefined>">>
Null      == <<"<null>">>
True      == <<"<true>">>
False     == <<"<false>">>
EmptyStr  == <<>>

NL == "\n"

\* no "Check Request Line Items" row
NoItem == <<>>

(* Each part of the model is explored on its own; the state of the others
   is then at rest. *)
RtIdle ==
  /\ rtItem = NoItem
  /\ rtBill = <<>>
  /\ rtSent = Undefined
  /\ rtStored = Undefined
  /\ rtStaged = <<>>
  /\ rtPc = "idle"

IvIdle ==
  /\ ivRequest = <<>>
  /\ ivBill = <<>>
  /\ ivReturn = <<>>
  /\ ivPc = "idle"

CbIdle ==
  /\ checkRequests = <<>>
  /\ newVendors = <<>>
  /\ ledgerBills = {}
  /\ ledgerVendors = {}
  /\ approvers = {}
  /\ attachments = {}
  /\ pc = <<>>
  /\ vendorId = <<>>
  /\ billComLineItems = <<>>
  /\ newBillId = <<>>
  /\ docIndex = <<>>
  /\ response = <<>>
  /\ rowError = <<>>
  /\ failOrder = <<>>
  /\ mainPc = "idle"
  /\ mainError = Undefined
  /\ runs = 0
  /\ failures = 0

SyIdle ==
  /\ bills = <<>>
  /\ table = <<>>
  /\ sessionId = Undefined
  /\ changes = <<>>
  /\ updates = <<>>
  /\ creates = <<>>
  /\ syncPc = "idle"
  /\ syncRuns = 0
  /\ tableBefore = <<>>
  /\ prevTable = <<>>
  /\ prevSessionId = Undefined
  /\ unchangedSince = FALSE

\* a || b
Falsy(v) == v \in {Undefined, Null, False, EmptyStr}
OrElse(a, b) == IF Falsy(a) THEN b ELSE a

\* `${v}` inside a template literal
TemplateStr(v) ==
  IF v = Undefined THEN <<"u","n","d","e","f","i","n","e","d">>
  ELSE IF v = Null THEN <<"n","u","l","l">>
  ELSE v

\* s.substring(from, to), 0-based, end exclusive
Min(a, b) == IF a < b THEN a ELSE b
substring(s, from, to) == SubSeq(s, Min(from, Len(s)) + 1, Min(to, Len(s)))

\* obj.key / map.get(key): undefined when absent
Get(obj, k) == IF k \in DOMAIN obj THEN obj[k] ELSE Undefined

\* does pat occur in s at 1-based position p
IsAt(s, p, pat) ==
  /\ p >= 1
  /\ p + Len(pat) - 1 <= Len(s)
  /\ \A i \in 1..Len(pat) : s[p + i - 1] = pat[i]

RECURSIVE Flatten(_)
Flatten(ss) == IF ss = <<>> THEN <<>> ELSE Head(ss) \o Flatten(Tail(ss))

---------------------------------------------------------------------------
(* encodeURIComponent and its inverse *)

Unreserved ==
  {"a","b","c","d","e","f","g","h","i","j","k","l","m","n","o","p","q","r",
   "s","t","u","v","w","x","y","z","A","B","C","D","E","F","G","H","I","J",
   "K","L","M","N","O","P","Q","R","S","T","U","V","W","X","Y","Z","0","1",
   "2","3","4","5","6","7","8","9","-","_",".","!","~","*","'","(",")"}

PercentCode(c) ==
  CASE c = NL  -> <<"%","0","A">>
    [] c = " " -> <<"%","2","0">>
    [] c = "&" -> <<"%","2","6">>
    [] c = "|" -> <<"%","7","C">>
    [] c = "%" -> <<"%","2","5">>
    [] c = "@" -> <<"%","4","0">>
    [] c = ":" -> <<"%","3","A">>
    [] c = "/" -> <<"%","2","F">>
    [] c = "," -> <<"%","2","C">>

encodeURIComponent(s) ==
  Flatten([i \in 1..Len(s) |->
             IF s[i] \in Unreserved THEN <<s[i]>> ELSE PercentCode(s[i])])

Escaped == {NL, " ", "&", "|", "%", "@", ":", "/", ","}

RECURSIVE decodeURIComponent(_)
decodeURIComponent(s) ==
  IF s = <<>> THEN <<>>
  ELSE IF s[1] = "%" /\ \E c \in Escaped : IsAt(s, 1, PercentCode(c))
       THEN <<CHOOSE c \in Escaped : IsAt(s, 1, PercentCode(c))>>
              \o decodeURIComponent(SubSeq(s, 4, Len(s)))
       ELSE <<s[1]>> \o decodeURIComponent(Tail(s))

---------------------------------------------------------------------------
(* Regular expressions of the bill-reporting sync *)

RECURSIVE SplitLines(_)
\* s split at every line feed ('.' never matches a line feed)
SplitLines(s) ==
  IF \A i \in 1..Len(s) : s[i] # NL THEN <<s>>
  ELSE LET k == CHOOSE i \in 1..Len(s) :
                  s[i] = NL /\ \A j \in 1..(i - 1) : s[j] # NL
       IN <<SubSeq(s, 1, k - 1)>> \o SplitLines(SubSeq(s, k + 1, Len(s)))

BarSep == <<" ", "|", " ">>

\* Ways to read one line as  (.+) \| (.+) \| (.+)  : <<Len(city), Len(state)>>
CityStateZipSplits(line) ==
  {cs \in (1..Len(line)) \X (1..Len(line)) :
     /\ IsAt(line, cs[1] + 1, BarSep)
     /\ IsAt(line, cs[1] + 3 + cs[2] + 1, BarSep)
     /\ cs[1] + 3 + cs[2] + 3 < Len(line)}

\* The greedy choice of the backtracking matcher: longest city, then
\* longest state.
GreedySplit(line) ==
  LET S == CityStateZipSplits(line)
      c == CHOOSE c \in {cs[1] : cs \in S} : \A cs \in S : cs[1] <= c
      t == CHOOSE t \in {cs[2] : cs \in {x \in S : x[1] = c}} :
             \A cs \in {x \in S : x[1] = c} : cs[2] <= t
  IN <<c, t>>

\* Lines at which merchantRegex can start matching.
MerchantStarts(desc) ==
  LET ls == SplitLines(desc)
  IN {i \in 1..(Len(ls) - 4) :
        /\ ls[i] # <<>>
        /\ ls[i + 1] # <<>>
        /\ ls[i + 2] # <<>>
        /\ CityStateZipSplits(ls[i + 3]) # {}
        /\ ls[i + 4] # <<>>}

merchantRegexMatches(desc) == MerchantStarts(desc) # {}

\* (description.match(merchantRegex)).groups, for a matching description:
\* the leftmost match.
merchantRegexGroups(desc) ==
  LET ls == SplitLines(desc)
      i  == CHOOSE i \in MerchantStarts(desc) :
              \A j \in MerchantStarts(desc) : i <= j
      ct == GreedySplit(ls[i + 3])
      l  == ls[i + 3]
  IN [date        |-> ls[i],
      name        |-> ls[i + 1],
      address     |-> ls[i + 2],
      city        |-> SubSeq(l, 1, ct[1]),
      state       |-> SubSeq(l, ct[1] + 4, ct[1] + 3 + ct[2]),
      zip         |-> SubSeq(l, ct[1] + 3 + ct[2] + 4, Len(l)),
      description |-> ls[i + 4]]

SubmittedBy == <<"S","u","b","m","i","t","t","e","d"," ","b","y"," ">>

\* (bill.description || '').match(/Submitted by (.+) \(/): <<start, end>> of
\* the group for every way to match.
SubmitterSpans(desc) ==
  {se \in (1..Len(desc)) \X (1..Len(desc)) :
     /\ IsAt(desc, se[1] - Len(SubmittedBy), SubmittedBy)
     /\ se[1] <= se[2]
     /\ \A i \in se[1]..se[2] : desc[i] # NL
     /\ IsAt(desc, se[2] + 1, <<" ", "(">>)}

\* submitterMatch == null ? null : submitterMatch[1]
submitterMatch(description) ==
  LET desc == OrElse(description, EmptyStr)
      S    == SubmitterSpans(desc)
  IN IF S = {} THEN Null
     ELSE LET s == CHOOSE s \in {se[1] : se \in S} : \A se \in S : s <= se[1]
              e == CHOOSE e \in {se[2] : se \in {x \in S : x[1] = s}} :
                     \A se \in {x \in S : x[1] = s} : se[2] <= e
          IN SubSeq(desc, s, e)

\* getYyyyMmDd: the date part of an ISO timestamp
getYyyyMmDd(time) == substring(time, 0, 10)

approvalStatuses ==
  (<<"0">> :> <<"Unassigned">>) @@ (<<"1">> :> <<"Assigned">>) @@
  (<<"4">> :> <<"Approving">>) @@ (<<"3">> :> <<"Approved">>) @@
  (<<"5">> :> <<"Denied">>)

paymentStatuses ==
  (<<"1">> :> <<"Open">>) @@ (<<"4">> :> <<"Scheduled">>) @@
  (<<"0">> :> <<"Paid In Full">>) @@ (<<"2">> :> <<"Partial Payment">>)

billComIdFieldName(entity) ==
  CASE entity = "Line Item"        -> "ORG Bill.com Line Item ID"
    [] entity = "Vendor"           -> "ORG Bill.com Vendor ID"
    [] entity = "Chart of Account" -> "ORG Bill.com Chart of Account ID"
    [] entity = "Customer"         -> "ORG Bill.com Customer ID"
    [] entity = "Bill"             -> "ORG Bill.com Bill ID"

primaryBillComId == billComIdFieldName("Line Item")

\* The mirror ("Bill Reporting") fields the sync writes.
MirrorFields ==
  {"Active", primaryBillComId, "Submitted By", "Creation Date",
   "Invoice Date", "Expense Date", billComIdFieldName("Vendor"),
   "Vendor Name", "Vendor Address", "Vendor City", "Vendor State",
   "Vendor Zip Code", "Description", billComIdFieldName("Chart of Account"),
   "Chart of Account", "Amount", billComIdFieldName("Customer"), "Customer",
   "Invoice ID", "Supporting Documents", "Approval Status", "Payment Status",
   billComIdFieldName("Bill")}


\* getEntityData('Vendor', v => ({name, address, city, state, zip}))
vendors ==
  <<"v1">> :> [name    |-> <<"H","o","t","e","l">>,
               address |-> <<"1"," ","M","a","i","n">>,
               city    |-> <<"R","e","n","o">>,
               state   |-> <<"N","V">>,
               zip     |-> <<"8","9","5">>]

\* getNames('ChartOfAccount'), getNames('Customer')
chartOfAccounts == <<"a1">> :> <<"T","r","a","v","e","l">>
customers       == <<"c1">> :> <<"P","r","o","j">>

\* docs: one {url} per document page, flattened to text
BillDocs(bill, sid) ==
  Flatten([i \in 1..bill.numPages |->
             <<"https://api.bill.com/is/BillImageServlet?entityId=">>
               \o bill.id \o <<"&sessionId=">> \o sid
               \o <<"&pageNumber=", ToString(i)>>])

\* the bill's vendor, or {} when it is not among the active vendors
BillVendor(bill) ==
  IF bill.vendorId \in DOMAIN vendors THEN vendors[bill.vendorId] ELSE <<>>

\* mutant: the merchant pattern is never consulted
ItemVendor_billOnly(item, vendor) == vendor

\* (item.description.match(merchantRegex) || {}).groups || vendor
ItemVendor(item, vendor) ==
  IF merchantRegexMatches(item.description)
  THEN merchantRegexGroups(item.description)
  ELSE vendor

\* The Changes Map entry of one line item.
ItemFields(bill, item, sid) ==
  LET vendor     == BillVendor(bill)
      itemVendor == ItemVendor(item, vendor)
  IN ("Active" :> True)
     @@ (primaryBillComId :> item.id)
     @@ ("Submitted By" :> submitterMatch(bill.description))
     @@ ("Creation Date" :> getYyyyMmDd(item.createdTime))
     @@ ("Invoice Date" :> bill.invoiceDate)
     @@ ("Expense Date" :> OrElse(Get(itemVendor, "date"), bill.invoiceDate))
     @@ (billComIdFieldName("Vendor") :> bill.vendorId)
     @@ ("Vendor Name" :> Get(itemVendor, "name"))
     @@ ("Vendor Address" :> Get(itemVendor, "address"))
     @@ ("Vendor City" :> Get(itemVendor, "city"))
     @@ ("Vendor State" :> Get(itemVendor, "state"))
     @@ ("Vendor Zip Code" :> Get(itemVendor, "zip"))
     @@ ("Description" :>
           OrElse(Get(itemVendor, "description"), item.description))
     @@ (billComIdFieldName("Chart of Account") :> item.chartOfAccountId)
     @@ ("Chart of Account" :> Get(chartOfAccounts, item.chartOfAccountId))
     @@ ("Amount" :> item.amount)
     @@ (billComIdFieldName("Customer") :> item.customerId)
     @@ ("Customer" :> Get(customers, item.customerId))
     @@ ("Invoice ID" :> bill.invoiceNumber)
     @@ ("Supporting Documents" :> BillDocs(bill, sid))
     @@ ("Approval Status" :> Get(approvalStatuses, bill.approvalStatus))
     @@ ("Payment Status" :> Get(paymentStatuses, bill.paymentStatus))
     @@ (billComIdFieldName("Bill") :> bill.id)

---------------------------------------------------------------------------
(* Bill creation: the description of one Bill.com line item *)

AmpSep == <<" ", "&", " ">>

\* the template literal of the packed description
PackedDescription(item) ==
  TemplateStr(item["Item Expense Date"]) \o <<NL>>
    \o TemplateStr(item["Merchant Name"]) \o <<NL>>
    \o TemplateStr(item["Merchant Address"]) \o <<NL>>
    \o TemplateStr(item["Merchant City"]) \o AmpSep
    \o TemplateStr(item["Merchant State"]) \o AmpSep
    \o TemplateStr(item["Merchant Zip Code"]) \o <<NL>>
    \o TemplateStr(item["Description"])

\* date == undefined ? description : encodeURIComponent(`...`)
LineItemDescription(item) ==
  IF item["Item Expense Date"] \in {Undefined, Null}
  THEN item["Description"]
  ELSE encodeURIComponent(PackedDescription(item))


---------------------------------------------------------------------------
(* Ledger data *)

\* a vendor id, a chart-of-account id that listActive does not return
InactiveVendorId == <<"v0">>
NoChartOfAccount == <<"a0">>

IsoDate == <<"2","0","2","1","-","0","1","-","0","2">>
IsoTime == IsoDate \o <<"T","0","3",":","0","4",":","0","5","Z">>

SubmitterDescription ==
  SubmittedBy \o <<"A","n","n"," ","(","a","@","b",")",".">>

\* A ledger Bill with the given vendor, pages and line items.
MakeBill(vid, numPages, items) ==
  [id             |-> <<"b1">>,
   vendorId       |-> vid,
   invoiceDate    |-> <<"2","0","2","1","-","0","3","-","0","4">>,
   invoiceNumber  |-> <<"I","N","V","7">>,
   description    |-> IF vid = InactiveVendorId
                      THEN Null ELSE SubmitterDescription,
   approvalStatus |-> IF vid = InactiveVendorId
                      THEN <<"9">> ELSE <<"3">>,
   paymentStatus  |-> <<"1">>,
   numPages       |-> numPages,
   billLineItems  |-> items]

\* A ledger line item.
MakeItem(id, description, chartOfAccountId) ==
  [id               |-> id,
   description      |-> description,
   createdTime      |-> IsoTime,
   chartOfAccountId |-> chartOfAccountId,
   customerId       |-> <<"c1">>,
   amount           |-> <<"1","0",".","5">>]

---------------------------------------------------------------------------
(* Round trip of the line-item description: create_bill packs it, the     *)
(* ledger stores it, the sync reads it back.                              *)

\* "Check Request Line Items" rows
RtItems ==
  {[f \in {"Item Expense Date", "Merchant Name", "Merchant Address",
           "Merchant City", "Merchant State", "Merchant Zip Code",
           "Description"} |->
      CASE f = "Item Expense Date" -> date
        [] f = "Merchant Name"     -> name
        [] f = "Merchant Address"  -> <<"9"," ","E","l","m">>
        [] f = "Merchant City"     -> city
        [] f = "Merchant State"    -> <<"C","A">>
        [] f = "Merchant Zip Code" -> <<"9","4","1">>
        [] f = "Description"       -> desc] :
     date \in {Undefined, IsoDate},
     name \in {<<"A","c","m","e">>, Undefined},
     city \in {<<"N","a","p","a">>, <<"A"," ","|"," ","B">>},
     desc \in {<<"t","a","x","i">>, <<"a"," ","&"," ","b">>,
               <<"l","1",NL,"l","2">>}}

\* Descriptions typed into the ledger by hand, built from their parts.
TypedParts ==
  [prefix : {<<>>, <<"p", NL>>},
   date   : {<<"d","1">>},
   name   : {<<"n","m">>, <<>>},
   city   : {<<"c">>, <<"c"," ","|"," ","k">>},
   state  : {<<"s","t">>},
   zip    : {<<"z">>, <<>>},
   sep    : {BarSep, AmpSep, <<"|">>},
   desc   : {<<"x","y">>, <<"x",NL,"y">>, <<>>}]

Typed(p) ==
  p.prefix \o p.date \o <<NL>> \o p.name \o <<NL>> \o <<"a","d","r">> \o <<NL>>
    \o p.city \o p.sep \o p.state \o p.sep \o p.zip \o <<NL>> \o p.desc

RtInit ==
  /\ rtItem \in RtItems \cup {NoItem}
  /\ rtBill \in {MakeBill(v, 0, <<>>) : v \in {<<"v1">>, InactiveVendorId}}
  /\ rtSent = Undefined
  /\ rtStored = Undefined
  /\ rtStaged = <<>>
  /\ rtPc = "new"
  /\ IvIdle /\ CbIdle /\ SyIdle

\* create_bill builds the line item's description and sends it.
RtBuildLineItem ==
  /\ rtPc = "new"
  /\ rtItem # NoItem
  /\ rtSent' = LineItemDescription(rtItem)
  /\ rtPc' = "sent"
  /\ UNCHANGED <<rtItem, rtStored, rtBill, rtStaged>>
  /\ UNCHANGED <<ivVars, cbVars, syVars>>

\* The ledger stores the form value it received, percent-decoded.
RtLedgerStore ==
  /\ rtPc = "sent"
  /\ rtStored' = decodeURIComponent(rtSent)
  /\ rtPc' = "stored"
  /\ UNCHANGED <<rtItem, rtSent, rtBill, rtStaged>>
  /\ UNCHANGED <<ivVars, cbVars, syVars>>

\* A ledger user types the description of a line item directly.
RtTypeInLedger ==
  /\ rtPc = "new"
  /\ rtItem = NoItem
  /\ \E p \in TypedParts : rtStored' = Typed(p)
  /\ rtPc' = "stored"
  /\ UNCHANGED <<rtItem, rtSent, rtBill, rtStaged>>
  /\ UNCHANGED <<ivVars, cbVars, syVars>>

\* The sync computes the Changes Map entry of the line item.
RtStage ==
  /\ rtPc = "stored"
  /\ rtStaged' =
       ItemFields(rtBill, MakeItem(<<"i1">>, rtStored, <<"a1">>), <<"s1">>)
  /\ rtPc' = "staged"
  /\ UNCHANGED <<rtItem, rtSent, rtStored, rtBill>>
  /\ UNCHANGED <<ivVars, cbVars, syVars>>

RtNext == RtBuildLineItem \/ RtLedgerStore \/ RtTypeInLedger \/ RtStage

RoundTripSpec == RtInit /\ [][RtNext]_vars


\* Text with no line feed and no " | " in it, and not empty.
PlainText(v) ==
  /\ v \notin {Undefined, Null, EmptyStr}
  /\ \A i \in 1..Len(v) : v[i] # NL /\ ~IsAt(v, i, BarSep)

\* C6 (as claimed): for a request line item that has an expense date (here:
\* one whose merchant fields and description are plain one-line text), the
\* description create_bill sends matches the merchant pattern of the sync,
\* and the sync stages exactly the date, name, address, city, state, zip and
\* description that were packed.
C6_RoundTrip ==
  (/\ rtPc = "staged"
   /\ rtItem # NoItem
   /\ \A f \in DOMAIN rtItem : PlainText(rtItem[f]))
  => /\ merchantRegexMatches(rtStored)
     /\ rtStaged["Expense Date"]    = rtItem["Item Expense Date"]
     /\ rtStaged["Vendor Name"]     = rtItem["Merchant Name"]
     /\ rtStaged["Vendor Address"]  = rtItem["Merchant Address"]
     /\ rtStaged["Vendor City"]     = rtItem["Merchant City"]
     /\ rtStaged["Vendor State"]    = rtItem["Merchant State"]
     /\ rtStaged["Vendor Zip Code"] = rtItem["Merchant Zip Code"]
     /\ rtStaged["Description"]     = rtItem["Description"]

\* C8: for a line item whose description matches the merchant pattern, the
\* staged Expense Date, Vendor Name/Address/City/State/Zip Code and
\* Description are the values extracted from the description (for a
\* description typed as date / name / address / "city | state | zip" /
\* description: those very parts); for one that does not match they are the
\* bill's vendor's, the bill's invoice date and the description unchanged.
C8_MerchantExtraction ==
  rtPc = "staged" =>
    /\ merchantRegexMatches(rtStored) =>
         LET g == merchantRegexGroups(rtStored)
         IN /\ rtStaged["Expense Date"]    = g.date
            /\ rtStaged["Vendor Name"]     = g.name
            /\ rtStaged["Vendor Address"]  = g.address
            /\ rtStaged["Vendor City"]     = g.city
            /\ rtStaged["Vendor State"]    = g.state
            /\ rtStaged["Vendor Zip Code"] = g.zip
            /\ rtStaged["Description"]     = g.description
    /\ ~merchantRegexMatches(rtStored) =>
         LET v == BillVendor(rtBill)
         IN /\ rtStaged["Expense Date"]    = rtBill.invoiceDate
            /\ rtStaged["Vendor Name"]     = Get(v, "name")
            /\ rtStaged["Vendor Address"]  = Get(v, "address")
            /\ rtStaged["Vendor City"]     = Get(v, "city")
            /\ rtStaged["Vendor State"]    = Get(v, "state")
            /\ rtStaged["Vendor Zip Code"] = Get(v, "zip")
            /\ rtStaged["Description"]     = rtStored
    /\ \A p \in TypedParts :
         (/\ rtStored = Typed(p)
          /\ p.sep = BarSep
          /\ p.name # <<>> /\ p.zip # <<>> /\ p.desc # <<>>)
         => /\ rtStaged["Expense Date"]    = p.date
            /\ rtStaged["Vendor Name"]     = p.name
            /\ rtStaged["Vendor Address"]  = <<"a","d","r">>
            /\ rtStaged["Vendor City"]     = p.city
            /\ rtStaged["Vendor State"]    = p.state
            /\ rtStaged["Vendor Zip Code"] = p.zip
            /\ rtStaged["Description"]     = SplitLines(p.desc)[1]
    /\ \A p \in TypedParts :
         (rtStored = Typed(p) /\ p.sep # BarSep /\ p.city = <<"c">>)
         => ~merchantRegexMatches(rtStored)

\* A matching description has been staged, with a merchant that is not the
\* bill's vendor.
C8_Witness ==
  /\ rtPc = "staged"
  /\ merchantRegexMatches(rtStored)
  /\ rtBill.vendorId = <<"v1">>
  /\ rtStaged["Vendor Name"] = <<"n","m">>
  /\ rtStaged["Vendor City"] = <<"c"," ","|"," ","k">>


---------------------------------------------------------------------------
(* Bill creation: the Check Request row, the invoice id, the Bill *)

PRIMARY_ORG_BILL_COM_ID == "ORG Bill.com ID"

\* A "Check Requests" row of the 'New' view.
MakeCheckRequest(id, requester, vendorInvoiceId, newVendor, docs) ==
  [f \in {"id", "Requester Name", "Requester Email", "Vendor Invoice ID",
          "Expense Date", "Due Date", "New Vendor?", "Supporting Documents",
          "Active", PRIMARY_ORG_BILL_COM_ID} |->
     CASE f = "id"                   -> id
       [] f = "Requester Name"       -> requester
       [] f = "Requester Email"      -> <<"a","@","b">>
       [] f = "Vendor Invoice ID"    -> vendorInvoiceId
       [] f = "Expense Date"         -> IsoDate
       [] f = "Due Date"             -> IsoDate
       [] f = "New Vendor?"          -> newVendor
       [] f = "Supporting Documents" -> docs
       [] f = "Active"               -> Undefined
       [] f = PRIMARY_ORG_BILL_COM_ID -> Undefined]

\* mutant: one character more of the requester name
invoiceId_16(newCheckRequest) ==
  OrElse(newCheckRequest["Vendor Invoice ID"],
         substring(newCheckRequest["Requester Name"], 0, 16)
           \o <<" ", "-", " ">>
           \o substring(newCheckRequest["id"], 3, 6))

\* newCheckRequest.get('Vendor Invoice ID') ||
\*     `${requester.substring(0, 15)} - ${getId().substring(3, 6)}`
invoiceId(newCheckRequest) ==
  OrElse(newCheckRequest["Vendor Invoice ID"],
         substring(newCheckRequest["Requester Name"], 0, 15)
           \o <<" ", "-", " ">>
           \o substring(newCheckRequest["id"], 3, 6))

\* The fields of the Bill passed to billComApi.create('Bill', ...).
BillFields(newCheckRequest, vid, lineItems) ==
  [vendorId      |-> vid,
   invoiceNumber |-> invoiceId(newCheckRequest),
   invoiceDate   |-> newCheckRequest["Expense Date"],
   dueDate       |-> newCheckRequest["Due Date"],
   description   |-> SubmittedBy
                       \o TemplateStr(newCheckRequest["Requester Name"])
                       \o <<" ", "(">>
                       \o TemplateStr(newCheckRequest["Requester Email"])
                       \o <<")", ".">>,
   billLineItems |-> lineItems]

\* The fields the row function returns, written onto the request row.
ConfirmationFields(newCheckRequest, billId) ==
  ("Active" :> True)
  @@ ("Vendor Invoice ID" :> invoiceId(newCheckRequest))
  @@ (PRIMARY_ORG_BILL_COM_ID :> billId)

---------------------------------------------------------------------------
(* The invoice id on its own *)

MaxNameLen == 17

RequesterName ==
  <<"A","l","e","x","a","n","d","r","i","a"," ",
    "B","a","r","t","h","o","l","o","m","e","w">>

RecordIds ==
  {<<"r","e","c","A","B","1","2","3","4","5","6","7">>,
   <<"r","e","c","x","Y","z","0","0","0","0","0","0">>}

IvRequests ==
  {MakeCheckRequest(id, SubSeq(RequesterName, 1, n), v, False, <<>>) :
     id \in RecordIds,
     n \in 1..Min(MaxNameLen, Len(RequesterName)),
     v \in {Undefined, EmptyStr, <<"I","N","V","-","7">>,
            [i \in 1..23 |-> "9"]}}

IvInit ==
  /\ ivRequest \in IvRequests
  /\ ivBill = <<>>
  /\ ivReturn = <<>>
  /\ ivPc = "new"
  /\ RtIdle /\ CbIdle /\ SyIdle

\* The Bill is assembled and sent to the ledger.
IvCreateBill ==
  /\ ivPc = "new"
  /\ ivBill' = BillFields(ivRequest, <<"v1">>, <<>>)
  /\ ivPc' = "created"
  /\ UNCHANGED <<ivRequest, ivReturn>>
  /\ UNCHANGED <<rtVars, cbVars, syVars>>

\* The row function returns the confirmation fields.
IvReturn ==
  /\ ivPc = "created"
  /\ ivReturn' = ConfirmationFields(ivRequest, <<"B1">>)
  /\ ivPc' = "returned"
  /\ UNCHANGED <<ivRequest, ivBill>>
  /\ UNCHANGED <<rtVars, cbVars, syVars>>

IvNext == IvCreateBill \/ IvReturn

InvoiceSpec == IvInit /\ [][IvNext]_vars

\* C7: a non-empty vendor-supplied invoice id is used unchanged; otherwise
\* the invoice id is the first 15 characters of the requester name, " - ",
\* and the characters at positions [3, 6) of the row's id, never longer than
\* 21 characters; the Bill's invoiceNumber and the returned Vendor Invoice ID
\* are that same value.
C7_InvoiceId ==
  ivPc = "returned" =>
    LET given == ivRequest["Vendor Invoice ID"]
        name  == ivRequest["Requester Name"]
        id    == ivRequest["id"]
        first == [i \in 1..Min(15, Len(name)) |-> name[i]]
    IN /\ ivBill.invoiceNumber = ivReturn["Vendor Invoice ID"]
       /\ given \notin {Undefined, EmptyStr} => ivBill.invoiceNumber = given
       /\ given \in {Undefined, EmptyStr} =>
            /\ ivBill.invoiceNumber
                 = first \o <<" ", "-", " ">> \o <<id[4], id[5], id[6]>>
            /\ Len(ivBill.invoiceNumber) <= 21

\* An invoice id was synthesized from a name longer than 15 characters.
C7_Witness ==
  /\ ivPc = "returned"
  /\ ivRequest["Vendor Invoice ID"] = Undefined
  /\ Len(ivRequest["Requester Name"]) > 15
  /\ ivReturn["Vendor Invoice ID"] =
       <<"A","l","e","x","a","n","d","r","i","a"," ","B","a","r","t",
         " ","-"," ","A","B","1">>


---------------------------------------------------------------------------
(* The record store (Airtable) as seen through Base *)

\* What a cell holds after a value is written to it: null, '' and [] empty
\* the cell, and record.get of an empty cell is undefined.
StoreValue(v) == IF v \in {Null, EmptyStr} THEN Undefined ELSE v

\* mutant: the update replaces the row (a destructive PUT), fields it does
\* not name are cleared
PatchFields_replace(row, fields) ==
  [f \in DOMAIN row \cup DOMAIN fields |->
     IF f \in DOMAIN fields THEN StoreValue(fields[f]) ELSE Undefined]

\* Base.update of one row: a PATCH.  Fields the update does not name are
\* left alone; so are fields whose value is undefined, which the JSON body
\* of the request does not carry.
PatchFields(row, fields) ==
  [f \in DOMAIN row \cup DOMAIN fields |->
     IF f \in DOMAIN fields /\ fields[f] # Undefined
     THEN StoreValue(fields[f])
     ELSE Get(row, f)]

\* catchError: the rejection is rethrown, wrapped
catchError(err, querying, tbl) ==
  <<"Error ", querying, " records in Airtable Table ", tbl, ": ">> \o err

\* fetchError(status, filename, statusText) throws
fetchError(status, filename, statusText) ==
  <<"Error ">> \o status \o <<" fetching ", filename, ": ", statusText>>

\* rejection of a call to the record store or to the ledger API
CallError == <<"call failed">>

---------------------------------------------------------------------------
(* Bill creation: main of create_bill over the rows of the 'New' view *)

MaxDocs == 2
MaxRuns == 2
MaxFailures == 2

CHECK_REQUESTS_TABLE == "Check Requests"
NEW_VENDORS_TABLE    == "New Vendors"

RowA == <<"r","e","c","A","B","1","2","3","4","5","6","7">>
RowB == <<"r","e","c","x","Y","z","0","0","0","0","0","0">>
Requests == {RowA, RowB}

DocNames(r) ==
  IF r = RowA THEN [i \in 1..MaxDocs |-> "a" \o ToString(i) \o ".pdf"]
  ELSE <<"b1.pdf">>

\* the one "Check Request Line Items" row linked from every request
RequestLineItem ==
  CHOOSE i \in RtItems :
    /\ i["Item Expense Date"] = IsoDate
    /\ i["Merchant Name"] = <<"A","c","m","e">>
    /\ i["Merchant City"] = <<"N","a","p","a">>
    /\ i["Description"] = <<"t","a","x","i">>

\* The 'New' view: requests not yet marked by the write-back.
InNewView(row) == row["Active"] # True

\* The ids the ledger gives to the entities it creates: fresh ones.
VendorIdOf(r, run) == <<"V", r[4], ToString(run)>>
BillIdOf(r, run)   == <<"B", r[4], ToString(run)>>

\* A call may fail while the budget of failures lasts.
Outcomes == IF failures < MaxFailures THEN BOOLEAN ELSE {TRUE}

OkStatus == <<"200">>
Statuses ==
  IF failures < MaxFailures THEN {OkStatus, <<"404">>} ELSE {OkStatus}

Docs(r) == checkRequests[r]["Supporting Documents"]

Settled(r) == pc[r] \in {"idle", "done", "failed"}

\* the first call a row function awaits
FirstCall(row) ==
  IF row["New Vendor?"] = True THEN "findNewVendor" ELSE "findVendor"

\* mutant: the Bill is created without waiting for the write-back of the new
\* vendor's id
NextCall_noWriteBack(call, docs, k) ==
  CASE call = "findNewVendor"   -> "createVendor"
    [] call = "createVendor"    -> "lineItem"
    [] call = "updateNewVendor" -> "lineItem"
    [] call = "findVendor"      -> "lineItem"
    [] call = "lineItem"        -> "createBill"
    [] call = "createBill"      -> "getApprovers"
    [] call = "getApprovers"    -> "setApprovers"
    [] call = "setApprovers"    -> IF docs = <<>> THEN "update" ELSE "fetch"
    [] call = "fetch"           -> "upload"
    [] call = "upload"          -> IF k < Len(docs) THEN "fetch" ELSE "update"
    [] call = "update"          -> "done"

\* mutant: the documents are uploaded before the approvers are set
NextCall_uploadFirst(call, docs, k) ==
  CASE call = "findNewVendor"   -> "createVendor"
    [] call = "createVendor"    -> "updateNewVendor"
    [] call = "updateNewVendor" -> "lineItem"
    [] call = "findVendor"      -> "lineItem"
    [] call = "lineItem"        -> "createBill"
    [] call = "createBill"      -> IF docs = <<>> THEN "getApprovers" ELSE "fetch"
    [] call = "fetch"           -> "upload"
    [] call = "upload"          -> IF k < Len(docs) THEN "fetch" ELSE "getApprovers"
    [] call = "getApprovers"    -> "setApprovers"
    [] call = "setApprovers"    -> "update"
    [] call = "update"          -> "done"

\* The call a row function awaits after `call` has completed: the order of
\* the awaits in the row function and in selectAndUpdate.  k is the position
\* in the loop over docs.
NextCall(call, docs, k) ==
  CASE call = "findNewVendor"   -> "createVendor"
    [] call = "createVendor"    -> "updateNewVendor"
    [] call = "updateNewVendor" -> "lineItem"
    [] call = "findVendor"      -> "lineItem"
    [] call = "lineItem"        -> "createBill"
    [] call = "createBill"      -> "getApprovers"
    [] call = "getApprovers"    -> "setApprovers"
    [] call = "setApprovers"    -> IF docs = <<>> THEN "update" ELSE "fetch"
    [] call = "fetch"           -> "upload"
    [] call = "upload"          -> IF k < Len(docs) THEN "fetch" ELSE "update"
    [] call = "update"          -> "done"

\* mutant: the response's ok flag is not looked at
FetchThrows_never(status) == FALSE

\* if (!response.ok) fetchError(...)
FetchThrows(status) == status # OkStatus

CbInit ==
  /\ checkRequests \in
       {[r \in Requests |->
           MakeCheckRequest(r, RequesterName, Undefined,
                            IF r \in nv THEN True ELSE Undefined,
                            IF r = RowA THEN SubSeq(DocNames(r), 1, na)
                            ELSE SubSeq(DocNames(r), 1, nb))] :
          nv \in SUBSET Requests, na \in 0..MaxDocs, nb \in 0..1}
  /\ newVendors = [r \in Requests |-> Undefined]
  /\ ledgerBills = {}
  /\ ledgerVendors = {}
  /\ approvers = {}
  /\ attachments = {}
  /\ pc = [r \in Requests |-> "idle"]
  /\ vendorId = [r \in Requests |-> Undefined]
  /\ billComLineItems = [r \in Requests |-> <<>>]
  /\ newBillId = [r \in Requests |-> Undefined]
  /\ docIndex = [r \in Requests |-> 1]
  /\ response = [r \in Requests |-> Undefined]
  /\ rowError = [r \in Requests |-> Undefined]
  /\ failOrder = <<>>
  /\ mainPc = "idle"
  /\ mainError = Undefined
  /\ runs = 0
  /\ failures = 0
  /\ RtIdle /\ IvIdle /\ SyIdle

others == <<rtVars, ivVars, syVars>>

\* main is invoked (again): a fresh process, fresh locals.
MainStart ==
  /\ mainPc \in {"idle", "resolved", "rejected"}
  /\ \A r \in Requests : Settled(r)
  /\ runs < MaxRuns
  /\ runs' = runs + 1
  /\ mainPc' = "login"
  /\ mainError' = Undefined
  /\ pc' = [r \in Requests |-> "idle"]
  /\ vendorId' = [r \in Requests |-> Undefined]
  /\ billComLineItems' = [r \in Requests |-> <<>>]
  /\ newBillId' = [r \in Requests |-> Undefined]
  /\ docIndex' = [r \in Requests |-> 1]
  /\ response' = [r \in Requests |-> Undefined]
  /\ rowError' = [r \in Requests |-> Undefined]
  /\ failOrder' = <<>>
  /\ UNCHANGED <<checkRequests, newVendors, ledgerBills, ledgerVendors,
                 approvers, attachments, failures, others>>

\* await billComApi.primaryOrgLogin()
PrimaryOrgLogin ==
  /\ mainPc = "login"
  /\ \E ok \in Outcomes :
       IF ok THEN mainPc' = "select" /\ UNCHANGED <<mainError, failures>>
       ELSE /\ mainPc' = "rejected"
            /\ mainError' = CallError
            /\ failures' = failures + 1
  /\ UNCHANGED <<checkRequests, newVendors, ledgerBills, ledgerVendors,
                 approvers, attachments, pc, vendorId, billComLineItems,
                 newBillId, docIndex, response, rowError, failOrder, runs,
                 others>>

\* Base.select: the records of the view arrive and Promise.all(records.map(
\* func)) calls the row function on every one of them; each runs up to its
\* first await.
Select ==
  /\ mainPc = "select"
  /\ \E ok \in Outcomes :
       IF ok
       THEN /\ pc' = [r \in Requests |->
                        IF InNewView(checkRequests[r])
                        THEN FirstCall(checkRequests[r]) ELSE "idle"]
            /\ mainPc' = IF \E r \in Requests : InNewView(checkRequests[r])
                         THEN "rows" ELSE "resolved"
            /\ UNCHANGED <<mainError, failures>>
       ELSE /\ mainPc' = "rejected"
            /\ mainError' = catchError(CallError, "selecting",
                                       CHECK_REQUESTS_TABLE)
            /\ failures' = failures + 1
            /\ UNCHANGED pc
  /\ UNCHANGED <<checkRequests, newVendors, ledgerBills, ledgerVendors,
                 approvers, attachments, vendorId, billComLineItems,
                 newBillId, docIndex, response, rowError, failOrder, runs,
                 others>>

\* The row function of r throws err: its promise rejects; Promise.all
\* rejects with the first rejection, which select's catchError wraps and
\* main rethrows.  Later rejections are dropped.
Throw(r, err) ==
  /\ pc' = [pc EXCEPT ![r] = "failed"]
  /\ rowError' = [rowError EXCEPT ![r] = err]
  /\ failOrder' = Append(failOrder, r)
  /\ failures' = failures + 1
  /\ IF mainPc = "rows"
     THEN /\ mainPc' = "rejected"
          /\ mainError' = catchError(err, "selecting", CHECK_REQUESTS_TABLE)
     ELSE UNCHANGED <<mainPc, mainError>>

\* The awaited call of r completed; the row function runs to its next await
\* (or, after the write-back, its promise resolves).
Proceed(r, k) ==
  LET next == NextCall(pc[r], Docs(r), k)
  IN /\ pc' = [pc EXCEPT ![r] = next]
     /\ mainPc' = IF /\ next = "done"
                     /\ mainPc = "rows"
                     /\ \A q \in Requests \ {r} : pc[q] \in {"idle", "done"}
                  THEN "resolved" ELSE mainPc
     /\ UNCHANGED <<mainError, rowError, failOrder, failures>>

\* A call that changes nothing the model tracks: the find of the New Vendors
\* row, the approvers' ids.
Lookup(r, call, err) ==
  /\ pc[r] = call
  /\ \E ok \in Outcomes : IF ok THEN Proceed(r, docIndex[r]) ELSE Throw(r, err)
  /\ UNCHANGED <<checkRequests, newVendors, ledgerBills, ledgerVendors,
                 approvers, attachments, vendorId, billComLineItems,
                 newBillId, docIndex, response, runs, others>>

FindNewVendor(r) ==
  Lookup(r, "findNewVendor", catchError(CallError, "finding", NEW_VENDORS_TABLE))

GetApprovers(r) ==
  Lookup(r, "getApprovers", catchError(CallError, "finding", "Users"))

\* vendorId = await billComApi.create('Vendor', ...)
CreateVendor(r) ==
  /\ pc[r] = "createVendor"
  /\ \E ok \in Outcomes :
       IF ok
       THEN /\ ledgerVendors' = ledgerVendors \cup {VendorIdOf(r, runs)}
            /\ vendorId' = [vendorId EXCEPT ![r] = VendorIdOf(r, runs)]
            /\ Proceed(r, docIndex[r])
       ELSE /\ Throw(r, catchError(CallError, "finding", NEW_VENDORS_TABLE))
            /\ UNCHANGED <<ledgerVendors, vendorId>>
  /\ UNCHANGED <<checkRequests, newVendors, ledgerBills, approvers,
                 attachments, billComLineItems, newBillId, docIndex,
                 response, runs, others>>

\* await update(NEW_VENDORS_TABLE, [{id: newVendorId, fields: {id: vendorId}}])
UpdateNewVendor(r) ==
  /\ pc[r] = "updateNewVendor"
  /\ \E ok \in Outcomes :
       IF ok
       THEN /\ newVendors' = [newVendors EXCEPT ![r] = StoreValue(vendorId[r])]
            /\ Proceed(r, docIndex[r])
       ELSE /\ Throw(r, catchError(CallError, "updating", NEW_VENDORS_TABLE))
            /\ UNCHANGED newVendors
  /\ UNCHANGED <<checkRequests, ledgerBills, ledgerVendors, approvers,
                 attachments, vendorId, billComLineItems, newBillId,
                 docIndex, response, runs, others>>

\* vendorId = await getBillComId('Existing Vendors', ...)
FindVendor(r) ==
  /\ pc[r] = "findVendor"
  /\ \E ok \in Outcomes :
       IF ok
       THEN /\ vendorId' = [vendorId EXCEPT ![r] = <<"v1">>]
            /\ Proceed(r, docIndex[r])
       ELSE /\ Throw(r, catchError(CallError, "finding", "Existing Vendors"))
            /\ UNCHANGED vendorId
  /\ UNCHANGED <<checkRequests, newVendors, ledgerBills, ledgerVendors,
                 approvers, attachments, billComLineItems, newBillId,
                 docIndex, response, runs, others>>

\* the find of the line item row, with the lookups of its callback
LineItem(r) ==
  /\ pc[r] = "lineItem"
  /\ \E ok \in Outcomes :
       IF ok
       THEN /\ billComLineItems' =
                 [billComLineItems EXCEPT ![r] =
                    Append(@, [entity           |-> "BillLineItem",
                               amount           |-> <<"1","0",".","5">>,
                               chartOfAccountId |-> <<"a1">>,
                               customerId       |-> <<"c1">>,
                               description      |->
                                 LineItemDescription(RequestLineItem)])]
            /\ Proceed(r, docIndex[r])
       ELSE /\ Throw(r, catchError(CallError, "finding",
                                   "Check Request Line Items"))
            /\ UNCHANGED billComLineItems
  /\ UNCHANGED <<checkRequests, newVendors, ledgerBills, ledgerVendors,
                 approvers, attachments, vendorId, newBillId, docIndex,
                 response, runs, others>>

\* newBillId = await billComApi.create('Bill', ...)
CreateBill(r) ==
  /\ pc[r] = "createBill"
  /\ \E ok \in Outcomes :
       IF ok
       THEN /\ ledgerBills' =
                 ledgerBills \cup
                   {[id     |-> BillIdOf(r, runs),
                     row    |-> r,
                     fields |-> BillFields(checkRequests[r], vendorId[r],
                                           billComLineItems[r])]}
            /\ newBillId' = [newBillId EXCEPT ![r] = BillIdOf(r, runs)]
            /\ Proceed(r, docIndex[r])
       ELSE /\ Throw(r, CallError)
            /\ UNCHANGED <<ledgerBills, newBillId>>
  /\ UNCHANGED <<checkRequests, newVendors, ledgerVendors, approvers,
                 attachments, vendorId, billComLineItems, docIndex,
                 response, runs, others>>

\* await billComApi.dataCall('SetApprovers', ...)
SetApprovers(r) ==
  /\ pc[r] = "setApprovers"
  /\ \E ok \in Outcomes :
       IF ok
       THEN /\ approvers' = approvers \cup {newBillId[r]}
            /\ Proceed(r, docIndex[r])
       ELSE /\ Throw(r, CallError)
            /\ UNCHANGED approvers
  /\ UNCHANGED <<checkRequests, newVendors, ledgerBills, ledgerVendors,
                 attachments, vendorId, billComLineItems, newBillId,
                 docIndex, response, runs, others>>

\* const response = await fetch(doc.url); if (!response.ok) fetchError(...)
Fetch(r) ==
  /\ pc[r] = "fetch"
  /\ \E status \in Statuses :
       /\ response' = [response EXCEPT ![r] = status]
       /\ IF FetchThrows(status)
          THEN Throw(r, fetchError(status, Docs(r)[docIndex[r]],
                                   "Not Found"))
          ELSE Proceed(r, docIndex[r])
  /\ UNCHANGED <<checkRequests, newVendors, ledgerBills, ledgerVendors,
                 approvers, attachments, vendorId, billComLineItems,
                 newBillId, docIndex, runs, others>>

\* await apiCall('UploadAttachment', {}, data); then the next doc, or the
\* return of the confirmation fields
Upload(r) ==
  /\ pc[r] = "upload"
  /\ \E ok \in Outcomes :
       IF ok
       THEN /\ attachments' =
                 attachments \cup {<<newBillId[r], Docs(r)[docIndex[r]]>>}
            /\ docIndex' = [docIndex EXCEPT ![r] = @ + 1]
            /\ Proceed(r, docIndex[r])
       ELSE /\ Throw(r, CallError)
            /\ UNCHANGED <<attachments, docIndex>>
  /\ UNCHANGED <<checkRequests, newVendors, ledgerBills, ledgerVendors,
                 approvers, vendorId, billComLineItems, newBillId,
                 response, runs, others>>

\* selectAndUpdate: this.update(table, [{id: record.getId(), fields}])
Update(r) ==
  /\ pc[r] = "update"
  /\ \E ok \in Outcomes :
       IF ok
       THEN /\ checkRequests' =
                 [checkRequests EXCEPT ![r] =
                    PatchFields(@, ConfirmationFields(@, newBillId[r]))]
            /\ Proceed(r, docIndex[r])
       ELSE /\ Throw(r, catchError(CallError, "updating",
                                   CHECK_REQUESTS_TABLE))
            /\ UNCHANGED checkRequests
  /\ UNCHANGED <<newVendors, ledgerBills, ledgerVendors, approvers,
                 attachments, vendorId, billComLineItems, newBillId,
                 docIndex, response, runs, others>>

CbNext ==
  \/ MainStart
  \/ PrimaryOrgLogin
  \/ Select
  \/ \E r \in Requests :
       \/ FindNewVendor(r)
       \/ CreateVendor(r)
       \/ UpdateNewVendor(r)
       \/ FindVendor(r)
       \/ LineItem(r)
       \/ CreateBill(r)
       \/ GetApprovers(r)
       \/ SetApprovers(r)
       \/ Fetch(r)
       \/ Upload(r)
       \/ Update(r)

CreateBillSpec == CbInit /\ [][CbNext]_vars


BillsOf(r) == {b \in ledgerBills : b.row = r}

\* C4 (as claimed): over any sequence of runs of the workflow, failed runs
\* included, at most one ledger Bill is ever created for a request row.
C4_AtMostOneBill ==
  \A r \in Requests : Cardinality(BillsOf(r)) <= 1

\* err names the status and the filename
Carries(err, status, filename) ==
  /\ err # Undefined
  /\ \E i \in DOMAIN err : err[i] = status[1]
  /\ \E i \in DOMAIN err : err[i] = filename

\* What C5 says of the request row itself: after a non-2xx response for one
\* of its documents the row function has thrown an error naming the status
\* and the filename, that document and the later ones are not uploaded, and
\* the confirmation fields are not written onto the row.
RowStopsAtFetch(r) ==
  LET k == docIndex[r]
  IN /\ pc[r] = "failed"
     /\ Carries(rowError[r], response[r], Docs(r)[k])
     /\ \A j \in k..Len(Docs(r)) :
          <<newBillId[r], Docs(r)[j]>> \notin attachments
     /\ checkRequests[r]["Active"] # True
     /\ checkRequests[r]["Vendor Invoice ID"] = Undefined
     /\ checkRequests[r][PRIMARY_ORG_BILL_COM_ID] = Undefined
     /\ mainPc = "rejected"

\* C5 (as claimed): when the fetch of a supporting document returns a
\* non-2xx response, the row's processing stops there (no upload of that or
\* a later document, no confirmation fields written) and an error carrying
\* the HTTP status and the filename propagates to the caller of main.
C5_FetchErrorReachesCaller ==
  \A r \in Requests :
    response[r] \notin {Undefined, OkStatus} =>
      /\ RowStopsAtFetch(r)
      /\ Carries(mainError, response[r], Docs(r)[docIndex[r]])

\* C5 (amended): the row stops as claimed and its row function throws the
\* error carrying status and filename; main rejects with the error of the
\* request row that failed first in the run, which is this error when no
\* other row failed before it.
C5_FetchErrorStopsRow ==
  \A r \in Requests :
    response[r] \notin {Undefined, OkStatus} =>
      /\ RowStopsAtFetch(r)
      /\ mainError = catchError(rowError[failOrder[1]], "selecting",
                                CHECK_REQUESTS_TABLE)
      /\ failOrder[1] = r =>
           Carries(mainError, response[r], Docs(r)[docIndex[r]])

\* The second document of a row got a non-2xx response after the first one
\* was uploaded, and main rejected with that error.
C5_Witness ==
  /\ response[RowA] = <<"404">>
  /\ docIndex[RowA] = 2
  /\ <<newBillId[RowA], "a1.pdf">> \in attachments
  /\ failOrder = <<RowA>>
  /\ mainPc = "rejected"
  /\ Carries(mainError, <<"404">>, "a2.pdf")

\* C9 (as claimed): request rows are processed one at a time; no two rows
\* are in the middle of their processing at once.
C9_OneRowAtATime ==
  \A r1, r2 \in Requests : r1 # r2 => Settled(r1) \/ Settled(r2)

\* C9 (amended): the row functions of all rows of the view are started
\* together and their steps may interleave; within one request row the
\* steps happen in program order: vendor, line items, Bill, approvers,
\* documents one after the other, write-back.
C9_RowStepsInOrder ==
  \A r \in Requests :
    /\ (mainPc = "rows" /\ InNewView(checkRequests[r])) => pc[r] # "idle"
    /\ billComLineItems[r] # <<>> => vendorId[r] # Undefined
    /\ newBillId[r] # Undefined => billComLineItems[r] # <<>>
    /\ newBillId[r] \in approvers => newBillId[r] # Undefined
    /\ docIndex[r] > 1 => newBillId[r] \in approvers
    /\ {a[2] : a \in {x \in attachments : x[1] = newBillId[r]}}
         = {Docs(r)[j] : j \in 1..(docIndex[r] - 1)}
    /\ pc[r] \in {"update", "done"} => docIndex[r] = Len(Docs(r)) + 1
    /\ pc[r] = "done" =>
         /\ checkRequests[r]["Active"] = True
         /\ checkRequests[r][PRIMARY_ORG_BILL_COM_ID] = newBillId[r]
    /\ (pc[r] \notin {"idle", "done"}) => InNewView(checkRequests[r])

\* Two rows are in the middle of their processing, at different steps.
C9_Witness ==
  /\ pc[RowA] = "upload"
  /\ pc[RowB] = "createBill"
  /\ mainPc = "rows"

\* C10: for a request flagged as new vendor, the Bill is created only after
\* the Vendor was created and its id written back onto the "New Vendors"
\* row, with that id as vendorId; when the write-back fails, no Bill is
\* created for the row.
C10_VendorWrittenBackBeforeBill ==
  \A r \in Requests :
    checkRequests[r]["New Vendor?"] = True =>
      /\ \A b \in BillsOf(r) :
           b.id = BillIdOf(r, runs) =>
             /\ b.fields.vendorId # Undefined
             /\ b.fields.vendorId \in ledgerVendors
             /\ b.fields.vendorId = newVendors[r]
      /\ rowError[r] = catchError(CallError, "updating", NEW_VENDORS_TABLE)
           => /\ newBillId[r] = Undefined
              /\ \A b \in BillsOf(r) : b.id # BillIdOf(r, runs)

\* A new-vendor request was processed to the end.
C10_Witness ==
  \E r \in Requests :
    /\ checkRequests[r]["New Vendor?"] = True
    /\ pc[r] = "done"
    /\ newVendors[r] = VendorIdOf(r, 1)
    /\ \E b \in BillsOf(r) : b.fields.vendorId = VendorIdOf(r, 1)


---------------------------------------------------------------------------
(* Bill-reporting sync: main over the "Bill Reporting" table *)

MaxRows     == 2
MaxPages    == 1
MaxSyncRuns == 2
BatchSize   == 10

BILL_REPORTING_TABLE == "Bill Reporting"

SessionIds == {<<"s1">>, <<"s2">>}

\* a description of the merchant form, and a plain one
MerchantDescription ==
  Typed([prefix |-> <<>>, date |-> <<"d","1">>, name |-> <<"n","m">>,
         city |-> <<"c">>, state |-> <<"s","t">>, zip |-> <<"z">>,
         sep |-> BarSep, desc |-> <<"x","y">>])
PlainDescription == <<"t","a","x","i">>

\* Line items as the ledger can return them.
LedgerItemLists ==
  {<<>>,
   <<MakeItem(<<"i1">>, PlainDescription, <<"a1">>)>>,
   <<MakeItem(<<"i1">>, MerchantDescription, NoChartOfAccount)>>,
   <<MakeItem(<<"i1">>, PlainDescription, <<"a1">>),
     MakeItem(<<"i2">>, MerchantDescription, NoChartOfAccount)>>}

\* The ledger's active Bills: one Bill.
Ledgers ==
  {<<MakeBill(v, n, items)>> :
     v \in {<<"v1">>, InactiveVendorId}, n \in 0..MaxPages,
     items \in LedgerItemLists}

\* Rows the mirror table can hold when a run starts: written by an earlier
\* run from other ledger data (every field set), or with nothing but the key.
MirrorRows ==
  {[f \in MirrorFields |->
      IF f = primaryBillComId THEN key
      ELSE IF f = "Active" THEN (IF old THEN True ELSE False)
      ELSE IF old THEN <<"o","l","d">> ELSE Undefined] :
     key \in {<<"i1">>, <<"i2">>, <<"i9">>}, old \in BOOLEAN}

RECURSIVE SeqsUpTo(_, _)
SeqsUpTo(S, n) ==
  IF n = 0 THEN {<<>>}
  ELSE SeqsUpTo(S, n - 1)
         \cup {Append(q, x) : q \in {t \in SeqsUpTo(S, n - 1) : Len(t) = n - 1},
                              x \in S}

\* The key field identifies a row: no two rows of the table share a key.
UniqueKeys(rows) ==
  \A i, j \in 1..Len(rows) :
    rows[i][primaryBillComId] = rows[j][primaryBillComId] => i = j

\* ids of the line items of the active ledger fetch
FetchedIds(bs) ==
  UNION {{bs[i].billLineItems[j].id : j \in 1..Len(bs[i].billLineItems)} :
           i \in 1..Len(bs)}

(* The Changes Map: a JavaScript Map, a sequence of [id, data] in insertion
   order with at most one entry per id. *)
MapHas(m, id) == \E i \in 1..Len(m) : m[i].id = id
MapGet(m, id) == m[CHOOSE i \in 1..Len(m) : m[i].id = id].data
MapSet(m, id, data) ==
  IF MapHas(m, id)
  THEN [i \in 1..Len(m) |-> IF m[i].id = id THEN [id |-> id, data |-> data]
                            ELSE m[i]]
  ELSE Append(m, [id |-> id, data |-> data])
MapDelete(m, id) == SelectSeq(m, LAMBDA e : e.id # id)

RECURSIVE ItemChanges(_, _, _, _)
\* for (const item of bill.billLineItems) changes.set(item.id, {...})
ItemChanges(bill, items, sid, chg) ==
  IF items = <<>> THEN chg
  ELSE ItemChanges(bill, Tail(items), sid,
                   MapSet(chg, Head(items).id,
                          ItemFields(bill, Head(items), sid)))

RECURSIVE BillChanges(_, _, _)
\* for (const bill of bills) ...
BillChanges(bs, sid, chg) ==
  IF bs = <<>> THEN chg
  ELSE BillChanges(Tail(bs), sid,
                   ItemChanges(Head(bs), Head(bs).billLineItems, sid, chg))

\* mutant: a matched entry stays in the Changes Map
SelectRecord_keep(row, chg) == chg

\* changes.delete(id) in the callback of select
SelectRecord(row, chg) == MapDelete(chg, row[primaryBillComId])

\* changes.get(id) || {Active: false}
RecordUpdate(row, chg) ==
  IF MapHas(chg, row[primaryBillComId])
  THEN MapGet(chg, row[primaryBillComId])
  ELSE "Active" :> False

RECURSIVE SelectRecords(_, _, _, _)
\* The callback of select over every record of the table, in order:
\* <<changes, updates>> afterwards.
SelectRecords(rows, i, chg, upd) ==
  IF i > Len(rows) THEN <<chg, upd>>
  ELSE SelectRecords(rows, i + 1, SelectRecord(rows[i], chg),
                     Append(upd, [id     |-> i,
                                  fields |-> RecordUpdate(rows[i], chg)]))

\* for (const [id, data] of changes) { data[key] = id; creates.push(...) }
StagedCreates(chg) ==
  [i \in 1..Len(chg) |->
     [fields |-> [f \in DOMAIN chg[i].data |->
                    IF f = primaryBillComId THEN chg[i].id
                    ELSE chg[i].data[f]]]]

\* A new row of the table with the given fields.
NewRow(fields) ==
  [f \in MirrorFields |->
     IF f \in DOMAIN fields THEN StoreValue(fields[f]) ELSE Undefined]

RECURSIVE ApplyUpdates(_, _)
\* the rows after one update call
ApplyUpdates(rows, upd) ==
  IF upd = <<>> THEN rows
  ELSE ApplyUpdates(
         [rows EXCEPT ![Head(upd).id] = PatchFields(@, Head(upd).fields)],
         Tail(upd))

SyInit ==
  /\ bills \in Ledgers
  /\ table \in {t \in SeqsUpTo(MirrorRows, MaxRows) : UniqueKeys(t)}
  /\ sessionId = Undefined
  /\ changes = <<>>
  /\ updates = <<>>
  /\ creates = <<>>
  /\ syncPc = "idle"
  /\ syncRuns = 0
  /\ tableBefore = <<>>
  /\ prevTable = <<>>
  /\ prevSessionId = Undefined
  /\ unchangedSince = FALSE
  /\ RtIdle /\ IvIdle /\ CbIdle

syOthers == <<rtVars, ivVars, checkRequests, newVendors, ledgerBills,
              ledgerVendors, approvers, attachments, pc, vendorId,
              billComLineItems, newBillId, docIndex, response, rowError,
              failOrder, mainPc, mainError, runs>>

\* a call failed: main throws
SyThrow ==
  /\ syncPc' = "error"
  /\ failures' = failures + 1
  /\ unchangedSince' = FALSE

\* The sync is run (again).
SyMainStart ==
  /\ syncPc \in {"idle", "done", "error"}
  /\ syncRuns < MaxSyncRuns
  /\ syncRuns' = syncRuns + 1
  /\ syncPc' = "login"
  /\ tableBefore' = table
  /\ prevTable' = IF syncPc = "done" /\ unchangedSince THEN <<table>> ELSE <<>>
  /\ prevSessionId' = sessionId
  /\ unchangedSince' = FALSE
  /\ changes' = <<>>
  /\ updates' = <<>>
  /\ creates' = <<>>
  /\ UNCHANGED <<bills, table, sessionId, failures, syOthers>>

\* Between two runs a line item leaves the ledger's active set.
SyLedgerChange ==
  /\ syncPc \in {"done", "error"}
  /\ syncRuns < MaxSyncRuns
  /\ unchangedSince
  /\ bills[1].billLineItems # <<>>
  /\ bills' = [bills EXCEPT ![1].billLineItems = SubSeq(@, 1, Len(@) - 1)]
  /\ unchangedSince' = FALSE
  /\ UNCHANGED <<table, sessionId, changes, updates, creates, syncPc,
                 syncRuns, tableBefore, prevTable, prevSessionId, failures,
                 syOthers>>

\* await billComApi.primaryOrgLogin(): a new session
SyLogin ==
  /\ syncPc = "login"
  /\ \E ok \in Outcomes :
       IF ok
       THEN /\ \E sid \in SessionIds : sessionId' = sid
            /\ syncPc' = "listActive"
            /\ UNCHANGED <<failures, unchangedSince>>
       ELSE SyThrow /\ UNCHANGED sessionId
  /\ UNCHANGED <<bills, table, changes, updates, creates, syncRuns,
                 tableBefore, prevTable, prevSessionId, syOthers>>

\* the reference data and the Bills are fetched and the Changes Map built
SyBuildChanges ==
  /\ syncPc = "listActive"
  /\ \E ok \in Outcomes :
       IF ok
       THEN /\ changes' = BillChanges(bills, sessionId, <<>>)
            /\ syncPc' = "select"
            /\ UNCHANGED <<failures, unchangedSince>>
       ELSE SyThrow /\ UNCHANGED changes
  /\ UNCHANGED <<bills, table, sessionId, updates, creates, syncRuns,
                 tableBefore, prevTable, prevSessionId, syOthers>>

\* await select(BILL_REPORTING_TABLE, '', record => ...): every record of the
\* table goes through the callback, which is synchronous
SySelect ==
  /\ syncPc = "select"
  /\ \E ok \in Outcomes :
       IF ok
       THEN /\ LET cu == SelectRecords(table, 1, changes, <<>>)
               IN changes' = cu[1] /\ updates' = cu[2]
            /\ syncPc' = "update"
            /\ UNCHANGED <<failures, unchangedSince>>
       ELSE SyThrow /\ UNCHANGED <<changes, updates>>
  /\ UNCHANGED <<bills, table, sessionId, creates, syncRuns, tableBefore,
                 prevTable, prevSessionId, syOthers>>

\* await update(BILL_REPORTING_TABLE, updates): one call per batch; after
\* the last one the creates are staged
SyUpdate ==
  /\ syncPc = "update"
  /\ \E ok \in Outcomes :
       IF ok
       THEN /\ table' = ApplyUpdates(table,
                                     SubSeq(updates, 1, Min(BatchSize, Len(updates))))
            /\ updates' = SubSeq(updates, Min(BatchSize, Len(updates)) + 1,
                                 Len(updates))
            /\ IF Len(updates) <= BatchSize
               THEN syncPc' = "create" /\ creates' = StagedCreates(changes)
               ELSE UNCHANGED <<syncPc, creates>>
            /\ UNCHANGED <<failures, unchangedSince>>
       ELSE SyThrow /\ UNCHANGED <<table, updates, creates>>
  /\ UNCHANGED <<bills, sessionId, changes, syncRuns, tableBefore,
                 prevTable, prevSessionId, syOthers>>

\* await create(BILL_REPORTING_TABLE, creates): one call per batch
SyCreate ==
  /\ syncPc = "create"
  /\ \E ok \in Outcomes :
       IF ok
       THEN /\ table' =
                 table \o [i \in 1..Min(BatchSize, Len(creates)) |->
                             NewRow(creates[i].fields)]
            /\ creates' = SubSeq(creates, Min(BatchSize, Len(creates)) + 1,
                                 Len(creates))
            /\ IF Len(creates) <= BatchSize
               THEN syncPc' = "done" /\ unchangedSince' = TRUE
               ELSE UNCHANGED <<syncPc, unchangedSince>>
            /\ UNCHANGED failures
       ELSE SyThrow /\ UNCHANGED <<table, creates>>
  /\ UNCHANGED <<bills, sessionId, changes, updates, syncRuns, tableBefore,
                 prevTable, prevSessionId, syOthers>>

SyNext ==
  \/ SyMainStart
  \/ SyLedgerChange
  \/ SyLogin
  \/ SyBuildChanges
  \/ SySelect
  \/ SyUpdate
  \/ SyCreate

SyncSpec == SyInit /\ [][SyNext]_vars


---------------------------------------------------------------------------
(* Claims about the reconciliation *)

\* a run has just completed and the ledger is as that run fetched it
RunCompleted == syncPc = "done" /\ unchangedSince

\* the rows of the table whose key is id
RowsOf(id) == {i \in 1..Len(table) : table[i][primaryBillComId] = id}

\* the entry of the Changes Map computed for the line item id
Computed(id) == MapGet(BillChanges(bills, sessionId, <<>>), id)

\* C1: after a run that completes without error, started on a table with
\* unique keys, every line item of the active ledger fetch has exactly one
\* row with its key, and that row is active and holds in every mapped field
\* the value computed for the line item in the Changes Map.
C1_FetchedItemsMirrored ==
  RunCompleted /\ UniqueKeys(tableBefore) =>
    \A id \in FetchedIds(bills) :
      /\ Cardinality(RowsOf(id)) = 1
      /\ \A i \in RowsOf(id) :
           /\ table[i]["Active"] = True
           /\ \A f \in MirrorFields :
                table[i][f] = StoreValue(Computed(id)[f])

\* C2: after a run that completes without error, every row that existed
\* before the run and whose key is not the id of a fetched line item still
\* exists, is inactive and has every other field as it was before the run.
C2_AbsentRowsSoftDeleted ==
  RunCompleted =>
    /\ Len(table) >= Len(tableBefore)
    /\ \A i \in 1..Len(tableBefore) :
         tableBefore[i][primaryBillComId] \notin FetchedIds(bills) =>
           /\ table[i]["Active"] = False
           /\ \A f \in MirrorFields \ {"Active"} :
                table[i][f] = tableBefore[i][f]

C2_Witness ==
  /\ RunCompleted
  /\ \E i \in 1..Len(tableBefore) :
       /\ tableBefore[i][primaryBillComId] \notin FetchedIds(bills)
       /\ tableBefore[i]["Active"] = True
       /\ tableBefore[i]["Vendor Name"] # Undefined
       /\ table[i]["Active"] = False
       /\ table[i]["Vendor Name"] = tableBefore[i]["Vendor Name"]
  /\ FetchedIds(bills) # {}

\* the run follows a completed run, with the ledger unchanged in between
Repeated == prevTable # <<>>

\* C3 as stated: the second of two successive runs over unchanged ledger
\* data issues no creates and leaves the table equal to the table after the
\* first run.
C3_SecondRunChangesNothing ==
  /\ syncPc = "create" /\ Repeated => creates = <<>>
  /\ syncPc = "done" /\ Repeated => table = prevTable[1]

\* C3: the second of two successive runs over unchanged ledger data issues
\* no creates and changes no field other than 'Supporting Documents', whose
\* URLs carry the session id of the run; when both runs have the same
\* session id the table after the second run equals the table after the
\* first.
C3_SecondRunChangesDocsOnly ==
  /\ syncPc = "create" /\ Repeated => creates = <<>>
  /\ syncPc = "done" /\ Repeated =>
       /\ Len(table) = Len(prevTable[1])
       /\ \A i \in 1..Len(table) :
            \A f \in MirrorFields \ {"Supporting Documents"} :
              table[i][f] = prevTable[1][i][f]
       /\ sessionId = prevSessionId => table = prevTable[1]

C3_Witness ==
  /\ syncPc = "done"
  /\ Repeated
  /\ sessionId # prevSessionId
  /\ \E i \in 1..Len(table) :
       /\ table[i]["Supporting Documents"]
            # prevTable[1][i]["Supporting Documents"]
       /\ table[i]["Active"] = True


====
